---- MODULE Spec2Model ----
(***************************************************************************)
(* BIA workflow engine of the Continuity Manager (BCMS) repository.        *)
(*                                                                         *)
(* The per-process work item (table bia_process_inputs) and the six        *)
(* workflow endpoints of FR 3.2 / FR 3.3 / FR 4.2 of the product           *)
(* requirements document kept in                                           *)
(* src/frontend/src/pages/DepartmentManagement/DepartmentManagement.jsx.   *)
(* The endpoint effects are taken from the "Logic:" paragraphs and the     *)
(* test cases of that document.  The guard table, the error names and the  *)
(* optimistic-concurrency check are not in the repository sources; they    *)
(* follow sections 4.5, 5 and 7 of the specification.                      *)
(***************************************************************************)
EXTENDS Integers, Sequences, FiniteSets, Bags, TLC

VARIABLES
    wi,         \* the work item: one row of bia_process_inputs and its ratings
    call,       \* call[a]: the transition call actor a has in flight, if any
    last,       \* the most recently completed call and its result
    forwarded,  \* the overrides of the latest successful forwardForApproval
    now,        \* the clock that stamps submittedDate
    trail,      \* the statuses the work item of the end-to-end run went through
    processes,            \* processes[p]: isActive and finalRTO of process p
    process_applications, \* the processes linked to the application
    derivedRTO,           \* applications.derivedRTO of the application
    recalc,     \* recalc[t]: the background recalculation t, if in flight
    audit,      \* the latest RTO event, and whether derivedRTO is settled
    bia_frameworks,       \* bia_frameworks[f]: isActive and weightages of f
    bia_parameters,       \* the rating-definition scores of each parameter
    departments,          \* departments[d]: isActive of department d
    bia_instances,        \* the BIA instances, in order of initiation
    bia_process_inputs,   \* the work items the initiations created
    notifications,        \* the assignment notifications sent, a bag
    reply,      \* the latest request on the frameworks or instances, its result
    bia_rating_definitions, \* the stored ranges of the quantitative parameter
    computed,   \* the latest score calculation: its inputs and its result
    page,       \* the state of DepartmentManagementPage, and its latest toast
    gets,       \* the GET /api/v1/departments/ requests, in order of issue
    posts,      \* the POST /api/v1/departments/ requests, in order of issue
    on_server   \* the number of departments the server holds

vars ==
    <<wi, call, last, forwarded, now, trail,
      processes, process_applications, derivedRTO, recalc, audit,
      bia_frameworks, bia_parameters, departments, bia_instances,
      bia_process_inputs, notifications, reply,
      bia_rating_definitions, computed, page, gets, posts, on_server>>

\* The frameworks, departments, instances and the work items of these.
registryVars ==
    <<bia_frameworks, bia_parameters, departments, bia_instances,
      bia_process_inputs, notifications, reply>>

\* The work item and the calls on it.
workflowVars == <<wi, call, last, forwarded, now, trail>>

\* The processes, the application and its derived RTO.
rtoVars == <<processes, process_applications, derivedRTO, recalc, audit>>

\* The rating catalog of the quantitative parameter.
catalogVars == <<bia_rating_definitions>>

\* The score calculation on its own.
scoringVars == <<computed>>

\* The department page, its requests and the server behind it.
pageVars == <<page, gets, posts, on_server>>

\* The state beside the work items, the RTO derivation and the registry.
sideVars == <<catalogVars, scoringVars, pageVars>>

\* The state outside the work item and the calls on it.
outside == <<trail, rtoVars, registryVars, sideVars>>

\* The state a workflow endpoint leaves alone whatever it answers.
beside == <<trail, process_applications, recalc, registryVars, sideVars>>

(***************************************************************************)
(* Bounds                                                                  *)
(***************************************************************************)
MaxClock == 2

\* The BIA instances that are initiated.
MaxInstances == 1

(***************************************************************************)
(* Values                                                                  *)
(***************************************************************************)
None == "None"

\* finalImpactScore is nullable: the value of a score not yet stored.
NoScore == -1

\* submittedDate is nullable: the value of a date not set.
NotSet == 0

Actors == {1, 2}

Statuses ==
    {"Initiated", "InProgress", "SubmittedForReview", "ReviewInProgress", "Approved"}

Actions ==
    {"saveDraft", "submitForReview", "requestClarification",
     "forwardForApproval", "approve", "reject"}

Errors ==
    {"ValidationError", "InvalidTransition", "ConcurrentModification",
     "IncompleteSubmission", "CorruptSnapshot"}

Params == {"P1", "P2"}

Labels == {"Low", "High"}

RTOOptions == {"8h", "24h"}

\* rto_options.valueInMinutes of each option.
valueInMinutes == [o \in RTOOptions |-> IF o = "8h" THEN 480 ELSE 1440]

Texts == {"", "text"}

\* The framework ids; F2 is the id of the next framework created.
FrameworkIds == {"F1", "F2"}

\* The department ids a request may name; there is no department D2.
DepartmentIds == {"D1", "D2"}

Users == {"U1", "U2"}

Frequencies == {"Annually"}

\* The weightages a framework request may give a parameter.
Weightages == {40, 60, 100}

OverrideScores == {NoScore, 200}

\* The framework frozen into the BIA instance: weightages in percent and the
\* score of each rating label (the framework of Test Case 4.1.1).
frameworkSnapshot ==
    [weights |-> [P1 |-> 60, P2 |-> 40],
     scores  |-> [P1 |-> [Low |-> 1, High |-> 5],
                  P2 |-> [Low |-> 1, High |-> 3]]]

RatingSets == [Params -> Labels \cup {None}]

NoRatings == [p \in Params |-> None]

NoArgs ==
    [ratings |-> NoRatings, rto |-> None, just |-> "", text |-> "",
     overrideScore |-> NoScore, overrideRTO |-> None]

(***************************************************************************)
(* Scoring: weighted average, kept in hundredths (3.4 is 340).             *)
(***************************************************************************)
RECURSIVE WeightedSum(_, _, _)
WeightedSum(ps, ratings, snapshot) ==
    IF ps = {} THEN 0
    ELSE LET p == CHOOSE q \in ps : TRUE
             s == IF ratings[p] = None THEN 0
                  ELSE snapshot.scores[p][ratings[p]]
         IN  s * snapshot.weights[p] + WeightedSum(ps \ {p}, ratings, snapshot)

\* A plain average: every parameter weighs the same.
calculate_impact_score_Unweighted(ratings, snapshot) ==
    WeightedSum(DOMAIN snapshot.weights, ratings,
                [snapshot EXCEPT !.weights =
                    [p \in DOMAIN snapshot.weights |->
                        100 \div Cardinality(DOMAIN snapshot.weights)]])

calculate_impact_score(ratings, snapshot) ==
    WeightedSum(DOMAIN snapshot.weights, ratings, snapshot)

\* A rating names a rating definition the snapshot does not hold.
Corrupt(ratings, snapshot) ==
    \E p \in DOMAIN snapshot.weights :
        /\ ratings[p] # None
        /\ ratings[p] \notin DOMAIN snapshot.scores[p]

\* The ratings whose rating definition the snapshot holds.
Known(ratings, snapshot) ==
    [p \in DOMAIN ratings |->
        IF p \in DOMAIN snapshot.weights
              /\ ratings[p] \notin DOMAIN snapshot.scores[p]
        THEN None
        ELSE ratings[p]]

\* A calculation that takes a rating without definition as no rating.
computeScore_Coerces(ratings, snapshot) ==
    [result |-> "OK",
     score  |-> calculate_impact_score(Known(ratings, snapshot), snapshot)]

\* The score calculation as the workflow calls it: the score, or the fault.
computeScore(ratings, snapshot) ==
    IF Corrupt(ratings, snapshot)
    THEN [result |-> "CorruptSnapshot", score |-> NoScore]
    ELSE [result |-> "OK",
          score  |-> calculate_impact_score(ratings, snapshot)]

\* The framework and the rating definitions as they are now.
freeze(f) ==
    [weights |-> bia_frameworks[f].weights, scores |-> bia_parameters]

\* A lookup of the live framework of the instance of the work item.
SnapshotOf_Live(w) == freeze(bia_instances[w.biaInstanceId].frameworkId)

\* The framework of the work item: the snapshot its instance took at
\* initiation.
SnapshotOf(w) == bia_instances[w.biaInstanceId].frameworkSnapshot

(***************************************************************************)
(* Work item                                                               *)
(***************************************************************************)
InitWorkItem ==
    [biaInstanceId     |-> 1,
     processId         |-> "P5",
     processOwnerId    |-> "U1",
     status            |-> "Initiated",
     ratings           |-> NoRatings,
     recommendedRTO    |-> None,
     rtoJustification  |-> "",
     submittedAt       |-> NotSet,
     reviewerComments  |-> "",
     departmentHeadNote |-> "",
     finalApprovedRTO  |-> None,
     finalImpactScore  |-> NoScore]

\* bia_process_parameter_ratings records are created/updated: a rating given
\* in the request replaces the stored one, a parameter the request leaves
\* out keeps its stored rating.
Upsert(stored, given) ==
    [p \in Params |-> IF given[p] # None THEN given[p] ELSE stored[p]]

(***************************************************************************)
(* Endpoint effects (the "Logic:" of each endpoint).  Each takes the work  *)
(* item and the request and gives the work item the endpoint stores.       *)
(***************************************************************************)

\* save_draft that forgets the status update.
save_draft_KeepsStatus(w, args) ==
    [w EXCEPT !.ratings          = Upsert(w.ratings, args.ratings),
              !.recommendedRTO   = args.rto,
              !.rtoJustification = args.just]

\* PUT /bia_process_inputs/{id}/save_draft
save_draft(w, args) ==
    [w EXCEPT !.ratings          = Upsert(w.ratings, args.ratings),
              !.recommendedRTO   = args.rto,
              !.rtoJustification = args.just,
              !.status           = "InProgress"]

\* submit_for_review that forgets to set submittedDate.
submit_for_review_NoDate(w, args, t) ==
    [w EXCEPT !.ratings          = Upsert(w.ratings, args.ratings),
              !.recommendedRTO   = args.rto,
              !.rtoJustification = args.just,
              !.status           = "SubmittedForReview",
              !.finalImpactScore =
                  computeScore(Upsert(w.ratings, args.ratings),
                               SnapshotOf(w)).score]

\* PUT /bia_process_inputs/{id}/submit_for_review (the request is complete)
submit_for_review(w, args, t) ==
    [w EXCEPT !.ratings          = Upsert(w.ratings, args.ratings),
              !.recommendedRTO   = args.rto,
              !.rtoJustification = args.just,
              !.status           = "SubmittedForReview",
              !.submittedAt      = t,
              !.finalImpactScore =
                  computeScore(Upsert(w.ratings, args.ratings),
                               SnapshotOf(w)).score]

\* send_for_clarification that forgets to clear submittedDate.
send_for_clarification_KeepsDate(w, args) ==
    [w EXCEPT !.status           = "Initiated",
              !.reviewerComments = args.text]

\* PUT /bia_process_inputs/{id}/send_for_clarification
send_for_clarification(w, args) ==
    [w EXCEPT !.status           = "Initiated",
              !.reviewerComments = args.text,
              !.submittedAt      = NotSet]

\* submit_for_department_head_approval that drops the override score.
submit_for_department_head_approval_NoOverride(w, args) ==
    [w EXCEPT !.status           = "ReviewInProgress",
              !.finalApprovedRTO =
                  IF args.overrideRTO # None THEN args.overrideRTO
                  ELSE w.recommendedRTO]

\* PUT /bia_process_inputs/{id}/submit_for_department_head_approval
submit_for_department_head_approval(w, args) ==
    [w EXCEPT !.status           = "ReviewInProgress",
              !.finalImpactScore =
                  IF args.overrideScore # NoScore THEN args.overrideScore ELSE @,
              !.finalApprovedRTO =
                  IF args.overrideRTO # None THEN args.overrideRTO
                  ELSE w.recommendedRTO]

\* department_head_approve that writes the owner's recommendation over the
\* RTO the reviewer set.
department_head_approve_Recommended(w, args) ==
    [w EXCEPT !.status             = "Approved",
              !.departmentHeadNote = args.text,
              !.finalApprovedRTO   = w.recommendedRTO]

\* PUT /bia_process_inputs/{id}/department_head_approve
department_head_approve(w, args) ==
    [w EXCEPT !.status             = "Approved",
              !.departmentHeadNote = args.text,
              !.finalApprovedRTO   =
                  IF @ = None THEN w.recommendedRTO ELSE @]

\* department_head_reject that leaves the RTO set at forwarding in place.
department_head_reject_KeepsRTO(w, args) ==
    [w EXCEPT !.status             = "Initiated",
              !.departmentHeadNote = args.text]

\* PUT /bia_process_inputs/{id}/department_head_reject
department_head_reject(w, args) ==
    [w EXCEPT !.status             = "Initiated",
              !.departmentHeadNote = args.text,
              !.finalApprovedRTO   = None]

(***************************************************************************)
(* The transition function                                                 *)
(***************************************************************************)

\* A forward that checks only that the BIA is not yet under approval.
ForwardSourceLoose == {"Initiated", "InProgress", "SubmittedForReview"}

\* Test Case 3.3.9: only a BIA that is 'Submitted for Review' can be submitted
\* for Department Head approval.
ForwardSource == {"SubmittedForReview"}

\* A completeness check that is satisfied by a single rating.
IncompleteWhenEmpty(ratings) == \A p \in Params : ratings[p] = None

\* Ratings are missing: not all parameters addressed (Test Case 3.2.6).
Incomplete(ratings) == \E p \in Params : ratings[p] = None

\* A guard table that lets the department head reject an approved work item.
GuardTableReopens ==
    [saveDraft            |-> {"Initiated", "InProgress"},
     submitForReview      |-> {"Initiated", "InProgress"},
     requestClarification |-> {"SubmittedForReview"},
     forwardForApproval   |-> ForwardSource,
     approve              |-> {"ReviewInProgress"},
     reject               |-> {"ReviewInProgress", "Approved"}]

\* The statuses each action is allowed from.
GuardTable ==
    [saveDraft            |-> {"Initiated", "InProgress"},
     submitForReview      |-> {"Initiated", "InProgress"},
     requestClarification |-> {"SubmittedForReview"},
     forwardForApproval   |-> ForwardSource,
     approve              |-> {"ReviewInProgress"},
     reject               |-> {"ReviewInProgress"}]

\* An input check that forgets reviewerComments.
InputValidNotesOnly(action, args) ==
    action \in {"approve", "reject"} => args.text # ""

\* The mandatory inputs: reviewerComments, departmentHeadApprovalNote.
InputValid(action, args) ==
    action \in {"requestClarification", "approve", "reject"} => args.text # ""

Effect(w, action, args, t) ==
    CASE action = "saveDraft"            -> save_draft(w, args)
      [] action = "submitForReview"      -> submit_for_review(w, args, t)
      [] action = "requestClarification" -> send_for_clarification(w, args)
      [] action = "forwardForApproval"   ->
             submit_for_department_head_approval(w, args)
      [] action = "approve"              -> department_head_approve(w, args)
      [] action = "reject"               -> department_head_reject(w, args)

\* A transition that writes without comparing the status it read.
TransitionBlindWrite(w, seen, action, args, t) ==
    IF ~InputValid(action, args)
        THEN [result |-> "ValidationError", wi |-> w]
    ELSE IF seen \notin GuardTable[action]
        THEN [result |-> "InvalidTransition", wi |-> w]
    ELSE IF action = "submitForReview"
            /\ Incomplete(Upsert(w.ratings, args.ratings))
        THEN [result |-> "IncompleteSubmission", wi |-> w]
    ELSE IF action = "submitForReview"
            /\ computeScore(Upsert(w.ratings, args.ratings),
                            SnapshotOf(w)).result # "OK"
        THEN [result |-> "CorruptSnapshot", wi |-> w]
    ELSE [result |-> "OK", wi |-> Effect(w, action, args, t)]

\* One transition call: seen is the status the call read, w the work item at
\* the moment the call writes.  Gives the result and the work item stored.
Transition(w, seen, action, args, t) ==
    IF ~InputValid(action, args)
        THEN [result |-> "ValidationError", wi |-> w]
    ELSE IF seen \notin GuardTable[action]
        THEN [result |-> "InvalidTransition", wi |-> w]
    ELSE IF w.status # seen
        THEN [result |-> "ConcurrentModification", wi |-> w]
    ELSE IF action = "submitForReview"
            /\ Incomplete(Upsert(w.ratings, args.ratings))
        THEN [result |-> "IncompleteSubmission", wi |-> w]
    ELSE IF action = "submitForReview"
            /\ computeScore(Upsert(w.ratings, args.ratings),
                            SnapshotOf(w)).result # "OK"
        THEN [result |-> "CorruptSnapshot", wi |-> w]
    ELSE [result |-> "OK", wi |-> Effect(w, action, args, t)]

(***************************************************************************)
(* Requests                                                                *)
(***************************************************************************)

\* The recommended RTO and its justification, as the questionnaire sends them.
RTOInputs ==
    {[rto |-> None, just |-> ""]} \cup
    {[rto |-> o, just |-> "text"] : o \in RTOOptions}

DraftArgs ==
    {[NoArgs EXCEPT !.ratings = r, !.rto = i.rto, !.just = i.just] :
        r \in RatingSets, i \in RTOInputs}

NoteArgs == {[NoArgs EXCEPT !.text = x] : x \in Texts}

ForwardArgs ==
    {[NoArgs EXCEPT !.overrideScore = s, !.overrideRTO = o] :
        s \in OverrideScores, o \in RTOOptions \cup {None}}

ArgsOf(action) ==
    CASE action \in {"saveDraft", "submitForReview"} -> DraftArgs
      [] action \in {"requestClarification", "approve", "reject"} -> NoteArgs
      [] action = "forwardForApproval" -> ForwardArgs

\* The requests of the concurrent behaviour: an empty or a complete
\* questionnaire, one RTO option.
RacingArgsOf(action) ==
    CASE action \in {"saveDraft", "submitForReview"} ->
             {a \in DraftArgs :
                 /\ a.ratings \in {NoRatings, [p \in Params |-> "High"]}
                 /\ a.rto \in {None, "8h"}}
      [] action \in {"requestClarification", "approve", "reject"} -> NoteArgs
      [] action = "forwardForApproval" ->
             {a \in ForwardArgs : a.overrideRTO \in {None, "24h"}}

Idle == [pc |-> "idle", seen |-> None, raced |-> FALSE]

\* The processes that may support the application.
ProcessIds == {"P5", "P6"}

\* The background recalculations that may be in flight together.
Tasks == {1, 2}

NoTask == [pc |-> "idle", found |-> None, dirty |-> FALSE]

NotForwarded == [overrideScore |-> NoScore, overrideRTO |-> None]

(***************************************************************************)
(* FR 4.3: the RTO of the application, derived from its processes.         *)
(***************************************************************************)

\* The longest of a set of durations.
Longest(minutes) == CHOOSE m \in minutes : \A n \in minutes : m >= n

\* The shortest (most stringent) of a set of durations.
Shortest(minutes) == CHOOSE m \in minutes : \A n \in minutes : m <= n

\* The label of the RTO option of that duration.
LabelOf(minutes) == CHOOSE o \in RTOOptions : valueInMinutes[o] = minutes

\* A derivation that takes the soft-deleted processes too.
deriveApplicationRTO_AllLinked(procs, links) ==
    LET labels  == {procs[p].finalRTO : p \in links} \ {None}
        minutes == {valueInMinutes[l] : l \in labels}
    IN  IF minutes = {} THEN None ELSE LabelOf(Shortest(minutes))

\* The active processes using the application, their finalRTO labels, these
\* converted to minutes, the label of the shortest; null when there is none.
deriveApplicationRTO(procs, links) ==
    LET active  == {p \in links : procs[p].isActive}
        labels  == {procs[p].finalRTO : p \in active} \ {None}
        minutes == {valueInMinutes[l] : l \in labels}
    IN  IF minutes = {} THEN None ELSE LabelOf(Shortest(minutes))

\* A recalculation that patches the stored value: it only ever shortens it.
recalculate_Incremental(stored, procs, links) ==
    LET d == deriveApplicationRTO(procs, links)
    IN  IF stored = None \/ d = None THEN d
        ELSE LabelOf(Shortest({valueInMinutes[stored], valueInMinutes[d]}))

\* The value a recalculation stores: derived anew from the processes.
recalculate(stored, procs, links) == deriveApplicationRTO(procs, links)

\* Triggers that leave out the removal of a link.
RecalculationTriggers_NoUnlink == {"approve", "reject", "link", "recalculate"}

\* The events upon which derivedRTO is recalculated: an update of
\* processes.finalRTO (approval, rejection), a change of linkage, a request.
RecalculationTriggers == {"approve", "reject", "link", "unlink", "recalculate"}

RTOEvents ==
    {[kind |-> "approve", p |-> p, rto |-> o] :
        p \in ProcessIds, o \in RTOOptions \cup {None}}
    \cup {[kind |-> k, p |-> p, rto |-> None] :
        k \in {"reject", "link", "unlink", "deactivate"}, p \in ProcessIds}
    \cup {[kind |-> "recalculate", p |-> None, rto |-> None]}

\* The processes and links an event leaves.
change(s, e) ==
    [processes |->
        CASE e.kind = "approve" -> [s.processes EXCEPT ![e.p].finalRTO = e.rto]
          [] e.kind = "reject" -> [s.processes EXCEPT ![e.p].finalRTO = None]
          [] e.kind = "deactivate" ->
                 [s.processes EXCEPT ![e.p].isActive = FALSE]
          [] OTHER -> s.processes,
     links |->
        CASE e.kind = "link" -> s.links \cup {e.p}
          [] e.kind = "unlink" -> s.links \ {e.p}
          [] OTHER -> s.links,
     derivedRTO |-> s.derivedRTO]

\* The event and the recalculation it triggers, as one step.
apply_event(s, e) ==
    LET c == change(s, e)
    IN  IF e.kind \in RecalculationTriggers
        THEN [c EXCEPT !.derivedRTO = recalculate(@, c.processes, c.links)]
        ELSE c

\* The same, done whether the approval or rejection succeeded or failed.
store_final_rto_AnyAnswer(action, out) ==
    IF action \in {"approve", "reject"}
    THEN LET e == [kind |-> action, p |-> out.wi.processId,
                   rto |-> out.wi.finalApprovedRTO]
             s == apply_event([processes |-> processes,
                               links |-> process_applications,
                               derivedRTO |-> derivedRTO], e)
         IN  /\ processes' = s.processes
             /\ derivedRTO' = s.derivedRTO
             /\ audit' = [event |-> action, settled |-> TRUE]
    ELSE UNCHANGED <<processes, derivedRTO, audit>>

\* What a workflow endpoint does beside the work item: an approval stores
\* the approved RTO as processes.finalRTO, a rejection resets it, and either
\* recalculates the RTO of the application; any other answer does nothing.
store_final_rto(action, out) ==
    IF out.result = "OK" /\ action \in {"approve", "reject"}
    THEN LET e == [kind |-> action, p |-> out.wi.processId,
                   rto |-> out.wi.finalApprovedRTO]
             s == apply_event([processes |-> processes,
                               links |-> process_applications,
                               derivedRTO |-> derivedRTO], e)
         IN  /\ processes' = s.processes
             /\ derivedRTO' = s.derivedRTO
             /\ audit' = [event |-> action, settled |-> TRUE]
    ELSE UNCHANGED <<processes, derivedRTO, audit>>

\* The RTO the work item holds, approved or not.
deriveProcessRTO_AnyStatus(w) == w.finalApprovedRTO

\* The effective RTO of the process of a work item: processes.finalRTO.
deriveProcessRTO(w) == processes[w.processId].finalRTO

(***************************************************************************)
(* Sequential behaviour: one caller at a time, each call runs to its end.  *)
(***************************************************************************)
\* The framework 'Standard BIA', department D1 and its two processes are in
\* place; no request has been made.
Installed ==
    /\ wi = InitWorkItem
    /\ call = [a \in Actors |-> Idle]
    /\ last = [action |-> None, result |-> None, raced |-> FALSE]
    /\ forwarded = NotForwarded
    /\ now = 1
    /\ trail = <<InitWorkItem.status>>
    /\ processes =
          [p \in ProcessIds |->
              [isActive |-> TRUE, finalRTO |-> None, processOwnerId |-> "U1"]]
    /\ process_applications = {}
    /\ derivedRTO = None
    /\ recalc = [t \in Tasks |-> NoTask]
    /\ audit = [event |-> None, settled |-> TRUE]
    /\ bia_frameworks =
          [f \in {"F1"} |->
              [isActive |-> TRUE, weights |-> frameworkSnapshot.weights]]
    /\ bia_parameters = frameworkSnapshot.scores
    /\ departments = [d \in {"D1"} |-> [isActive |-> TRUE]]
    /\ bia_process_inputs = {}
    /\ notifications = EmptyBag
    /\ reply = [call |-> None, result |-> None]
    /\ bia_rating_definitions = [ranges |-> <<>>, isActive |-> FALSE]
    /\ computed =
          [request |-> None, ratings |-> None, snapshot |-> None,
           score |-> NoScore]
    /\ page =
          [departments |-> <<>>, isLoading |-> FALSE, error |-> None,
           showCreateModal |-> FALSE, toast |-> None]
    /\ gets = <<>>
    /\ posts = <<>>
    /\ on_server = 0

\* The instance of the work item wi: initiated for D1 with 'Standard BIA'.
FirstInstance ==
    [departmentId |-> "D1", frameworkId |-> "F1", frequency |-> "Annually",
     frameworkSnapshot |-> frameworkSnapshot]

\* The work item wi has been initiated.
Init ==
    /\ Installed
    /\ bia_instances = <<FirstInstance>>

\* No BIA has been initiated.
InitRegistry ==
    /\ Installed
    /\ bia_instances = <<>>

\* The end of a call that read the status seen: the work item is written, the
\* result returned.
Finish(seen, action, args, raced) ==
    LET out == Transition(wi, seen, action, args, now)
    IN  /\ wi' = out.wi
        /\ last' = [action |-> action, result |-> out.result, raced |-> raced]
        /\ forwarded' =
             IF action = "forwardForApproval" /\ out.result = "OK"
             THEN [overrideScore |-> args.overrideScore,
                   overrideRTO |-> args.overrideRTO]
             ELSE forwarded
        /\ store_final_rto(action, out)

Call(action, args) ==
    /\ \A a \in Actors : call[a].pc = "idle"
    /\ Finish(wi.status, action, args, FALSE)
    /\ UNCHANGED <<call, now>>
    /\ UNCHANGED beside

SaveDraft == \E args \in ArgsOf("saveDraft") : Call("saveDraft", args)

SubmitForReview ==
    \E args \in ArgsOf("submitForReview") : Call("submitForReview", args)

RequestClarification ==
    \E args \in ArgsOf("requestClarification") :
        Call("requestClarification", args)

ForwardForApproval ==
    \E args \in ArgsOf("forwardForApproval") : Call("forwardForApproval", args)

Approve == \E args \in ArgsOf("approve") : Call("approve", args)

Reject == \E args \in ArgsOf("reject") : Call("reject", args)

Tick ==
    /\ now < MaxClock
    /\ now' = now + 1
    /\ UNCHANGED <<wi, call, last, forwarded>>
    /\ UNCHANGED outside

Next ==
    \/ SaveDraft
    \/ SubmitForReview
    \/ RequestClarification
    \/ ForwardForApproval
    \/ Approve
    \/ Reject
    \/ Tick

Spec == Init /\ [][Next]_vars

(***************************************************************************)
(* Concurrent behaviour: a call reads the status, and writes later.        *)
(***************************************************************************)
Begin(a) ==
    /\ call[a].pc = "idle"
    /\ call' = [call EXCEPT ![a] =
                    [pc |-> "read", seen |-> wi.status, raced |-> FALSE]]
    /\ UNCHANGED <<wi, last, forwarded, now>>
    /\ UNCHANGED outside

\* raced: a call of another actor that had read the same status took effect
\* while this call was in flight.
Commit(a, action, args) ==
    /\ call[a].pc = "read"
    /\ Finish(call[a].seen, action, args, call[a].raced)
    /\ call' = [b \in Actors |->
           IF b = a THEN Idle
           ELSE IF /\ last'.result = "OK"
                   /\ call[b].pc = "read"
                   /\ call[b].seen = call[a].seen
                THEN [call[b] EXCEPT !.raced = TRUE]
                ELSE call[b]]
    /\ UNCHANGED now
    /\ UNCHANGED beside

NextCAS ==
    \/ \E a \in Actors : Begin(a)
    \/ \E a \in Actors : \E action \in Actions :
          \E args \in RacingArgsOf(action) : Commit(a, action, args)
    \/ Tick

SpecCAS == Init /\ [][NextCAS]_vars

(***************************************************************************)
(* The end-to-end run of Test Case E3.R.1: after initiation the owner      *)
(* submits, the BCM manager asks for clarification, the owner resubmits,   *)
(* the BCM manager forwards, the department head approves.  A call that    *)
(* fails is made again.                                                    *)
(***************************************************************************)
FullWorkflow ==
    <<"submitForReview", "requestClarification", "submitForReview",
      "forwardForApproval", "approve">>

WorkflowStep ==
    /\ Len(trail) <= Len(FullWorkflow)
    /\ \E args \in ArgsOf(FullWorkflow[Len(trail)]) :
          Finish(wi.status, FullWorkflow[Len(trail)], args, FALSE)
    /\ trail' = IF last'.result = "OK" THEN Append(trail, wi'.status) ELSE trail
    /\ UNCHANGED <<call, now>>
    /\ UNCHANGED <<process_applications, recalc, registryVars, sideVars>>

NextWorkflow ==
    \/ WorkflowStep
    \/ Tick

SpecWorkflow == Init /\ [][NextWorkflow]_vars

(***************************************************************************)
(* The RTO events as steps of the application's state.                     *)
(***************************************************************************)

\* The events that can happen.
CanHappen(e) ==
    CASE e.kind = "link" -> e.p \notin process_applications
      [] e.kind = "unlink" -> e.p \in process_applications
      [] e.kind = "deactivate" -> processes[e.p].isActive
      [] OTHER -> TRUE

Here ==
    [processes |-> processes, links |-> process_applications,
     derivedRTO |-> derivedRTO]

\* An event handled with its recalculation as a trigger of the same step.
RTOEvent(e) ==
    /\ CanHappen(e)
    /\ LET s == apply_event(Here, e)
       IN  /\ processes' = s.processes
           /\ process_applications' = s.links
           /\ derivedRTO' = s.derivedRTO
    /\ audit' = [event |-> e.kind, settled |-> e.kind \in RecalculationTriggers]
    /\ UNCHANGED recalc
    /\ UNCHANGED <<workflowVars, registryVars, sideVars>>

EventsOf(kind) == {e \in RTOEvents : e.kind = kind}

ApproveBIA == \E e \in EventsOf("approve") : RTOEvent(e)

RejectBIA == \E e \in EventsOf("reject") : RTOEvent(e)

LinkProcess == \E e \in EventsOf("link") : RTOEvent(e)

UnlinkProcess == \E e \in EventsOf("unlink") : RTOEvent(e)

DeactivateProcess == \E e \in EventsOf("deactivate") : RTOEvent(e)

Recalculate == \E e \in EventsOf("recalculate") : RTOEvent(e)

NextRTO ==
    \/ ApproveBIA
    \/ RejectBIA
    \/ LinkProcess
    \/ UnlinkProcess
    \/ DeactivateProcess
    \/ Recalculate

SpecRTO == Init /\ [][NextRTO]_vars

(***************************************************************************)
(* The recalculation as a background task: the event queues it, the task   *)
(* reads the processes, and writes derivedRTO later.  No lock is held.     *)
(***************************************************************************)
Trigger(t, e) ==
    /\ e.kind \in RecalculationTriggers \ {"recalculate"}
    /\ CanHappen(e)
    /\ recalc[t].pc = "idle"
    /\ LET s == change(Here, e)
       IN  /\ processes' = s.processes
           /\ process_applications' = s.links
    /\ recalc' = [u \in Tasks |->
           IF u = t THEN [pc |-> "queued", found |-> None, dirty |-> FALSE]
           ELSE IF recalc[u].pc = "read" THEN [recalc[u] EXCEPT !.dirty = TRUE]
           ELSE recalc[u]]
    /\ audit' = [event |-> e.kind, settled |-> FALSE]
    /\ UNCHANGED derivedRTO
    /\ UNCHANGED <<workflowVars, registryVars, sideVars>>

RecalcRead(t) ==
    /\ recalc[t].pc = "queued"
    /\ recalc' = [recalc EXCEPT ![t] =
           [pc |-> "read",
            found |-> recalculate(derivedRTO, processes, process_applications),
            dirty |-> FALSE]]
    /\ UNCHANGED <<processes, process_applications, derivedRTO, audit>>
    /\ UNCHANGED <<workflowVars, registryVars, sideVars>>

\* settled: no process or link has changed since this task read them.
RecalcWrite(t) ==
    /\ recalc[t].pc = "read"
    /\ derivedRTO' = recalc[t].found
    /\ recalc' = [recalc EXCEPT ![t] = NoTask]
    /\ audit' = [event |-> "recalculate", settled |-> ~recalc[t].dirty]
    /\ UNCHANGED <<processes, process_applications>>
    /\ UNCHANGED <<workflowVars, registryVars, sideVars>>

NextRTORace ==
    \/ \E t \in Tasks : \E e \in RTOEvents : Trigger(t, e)
    \/ \E t \in Tasks : RecalcRead(t)
    \/ \E t \in Tasks : RecalcWrite(t)

SpecRTORace == Init /\ [][NextRTORace]_vars

(***************************************************************************)
(* FR 2.3 and FR 3.1: the framework builder and the initiation of a BIA.   *)
(***************************************************************************)

\* The parameters a framework request selects, each with its weightage.
FrameworkInputs == UNION {[ps -> Weightages] : ps \in SUBSET Params}

RECURSIVE SumOfWeightages(_, _)
SumOfWeightages(ps, weights) ==
    IF ps = {} THEN 0
    ELSE LET p == CHOOSE q \in ps : TRUE
         IN  weights[p] + SumOfWeightages(ps \ {p}, weights)

\* A validation that asks only for a parameter.
validate_framework_NonEmpty(weights) ==
    IF DOMAIN weights = {} THEN "EmptyFramework" ELSE "OK"

\* Input validation of a framework save: some parameter is selected, the
\* weightages of the selected parameters sum to 100.
validate_framework(weights) ==
    IF DOMAIN weights = {} THEN "EmptyFramework"
    ELSE IF SumOfWeightages(DOMAIN weights, weights) # 100
         THEN "WeightSumInvalid"
    ELSE "OK"

\* POST /bia_frameworks
CreateFramework ==
    \E f \in FrameworkIds \ DOMAIN bia_frameworks : \E w \in FrameworkInputs :
        /\ bia_frameworks' =
              IF validate_framework(w) = "OK"
              THEN bia_frameworks @@ (f :> [isActive |-> TRUE, weights |-> w])
              ELSE bia_frameworks
        /\ reply' = [call |-> "createFramework", result |-> validate_framework(w)]
        /\ UNCHANGED <<bia_parameters, departments, bia_instances,
                       bia_process_inputs, notifications>>
        /\ UNCHANGED <<workflowVars, rtoVars, sideVars>>

\* PUT /bia_frameworks/{id}
UpdateFramework ==
    \E f \in DOMAIN bia_frameworks : \E w \in FrameworkInputs :
        /\ bia_frameworks' =
              IF validate_framework(w) = "OK"
              THEN [bia_frameworks EXCEPT ![f].weights = w]
              ELSE bia_frameworks
        /\ reply' = [call |-> "updateFramework", result |-> validate_framework(w)]
        /\ UNCHANGED <<bia_parameters, departments, bia_instances,
                       bia_process_inputs, notifications>>
        /\ UNCHANGED <<workflowVars, rtoVars, sideVars>>

\* DELETE /bia_frameworks/{id}: soft delete
DeleteFramework ==
    \E f \in DOMAIN bia_frameworks :
        /\ bia_frameworks[f].isActive
        /\ bia_frameworks' = [bia_frameworks EXCEPT ![f].isActive = FALSE]
        /\ reply' = [call |-> "deleteFramework", result |-> "OK"]
        /\ UNCHANGED <<bia_parameters, departments, bia_instances,
                       bia_process_inputs, notifications>>
        /\ UNCHANGED <<workflowVars, rtoVars, sideVars>>

\* The scores the rating definition 'High' of parameter P1 is given.
HighScores == {4, 5}

\* Update of the score of a rating definition of a parameter (FR 2.2).
UpdateRatingDefinition ==
    \E n \in HighScores :
        /\ bia_parameters' = [bia_parameters EXCEPT !["P1"]["High"] = n]
        /\ UNCHANGED <<bia_frameworks, departments, bia_instances,
                       bia_process_inputs, notifications, reply>>
        /\ UNCHANGED <<workflowVars, rtoVars, sideVars>>

\* DELETE /departments/{id}: soft delete
DeleteDepartment ==
    \E d \in DOMAIN departments :
        /\ departments[d].isActive
        /\ departments' = [departments EXCEPT ![d].isActive = FALSE]
        /\ UNCHANGED <<bia_frameworks, bia_parameters, bia_instances,
                       bia_process_inputs, notifications, reply>>
        /\ UNCHANGED <<workflowVars, rtoVars, sideVars>>

\* PUT /processes/{id}: the process is given another owner.
ChangeOwner ==
    \E p \in ProcessIds : \E u \in Users :
        /\ processes' = [processes EXCEPT ![p].processOwnerId = u]
        /\ UNCHANGED <<process_applications, derivedRTO, recalc, audit>>
        /\ UNCHANGED <<workflowVars, registryVars, sideVars>>

\* A reference check that takes a soft-deleted record.
Usable_Exists(table, id) == id \in DOMAIN table

\* The record exists and is not soft-deleted.
Usable(table, id) == id \in DOMAIN table /\ table[id].isActive

\* The department of each process.
DepartmentOf == [p \in ProcessIds |-> "D1"]

\* All processes of the department, the soft-deleted ones too.
all_processes(d) == {p \in ProcessIds : DepartmentOf[p] = d}

\* All active processes associated with the departmentId.
active_processes(d) ==
    {p \in ProcessIds : DepartmentOf[p] = d /\ processes[p].isActive}

\* The bia_process_inputs record of process p in instance i.
NewWorkItem(i, p) ==
    [InitWorkItem EXCEPT !.biaInstanceId = i,
                         !.processId = p,
                         !.processOwnerId = processes[p].processOwnerId]

\* What initiate answers and stores.
initiate(d, f, q) ==
    IF ~Usable(departments, d)
    THEN [result |-> "InvalidDepartment", instances |-> bia_instances,
          inputs |-> {}]
    ELSE IF ~Usable(bia_frameworks, f)
    THEN [result |-> "InvalidFramework", instances |-> bia_instances,
          inputs |-> {}]
    ELSE [result |-> "OK",
          instances |-> Append(bia_instances,
              [departmentId |-> d, frameworkId |-> f, frequency |-> q,
               frameworkSnapshot |-> freeze(f)]),
          inputs |-> {NewWorkItem(Len(bia_instances) + 1, p) :
                         p \in active_processes(d)}]

\* POST /bia_instances/initiate
Initiate ==
    \E d \in DepartmentIds : \E f \in FrameworkIds : \E q \in Frequencies :
        LET out == initiate(d, f, q)
        IN  /\ out.result = "OK" => Len(bia_instances) < MaxInstances
            /\ bia_instances' = out.instances
            /\ bia_process_inputs' = bia_process_inputs \cup out.inputs
            /\ notifications' = notifications (+) SetToBag(
                   {[to |-> w.processOwnerId, biaInstanceId |-> w.biaInstanceId,
                     processId |-> w.processId] : w \in out.inputs})
            /\ reply' = [call |-> "initiate", result |-> out.result]
            /\ UNCHANGED <<bia_frameworks, bia_parameters, departments>>
            /\ UNCHANGED <<workflowVars, rtoVars, sideVars>>

\* The requests made on the work items of the instances: the questionnaire
\* is submitted complete, forwarded without override, approved.
ItemActions == {"submitForReview", "forwardForApproval", "approve"}

ItemArgsOf(action) ==
    CASE action = "submitForReview" ->
             {a \in DraftArgs :
                 /\ a.ratings \in {[P1 |-> "High", P2 |-> "Low"],
                                   [P1 |-> "Low", P2 |-> "High"]}
                 /\ a.rto = "8h"}
      [] action = "forwardForApproval" ->
             {a \in ForwardArgs :
                 a.overrideScore = NoScore /\ a.overrideRTO = None}
      [] action = "approve" -> {a \in NoteArgs : a.text # ""}

\* The processes whose questionnaire is answered.
Respondents == {"P5"}

\* A workflow endpoint called on one of the work items.
WorkItemStep ==
    \E w \in bia_process_inputs : \E action \in ItemActions :
      \E args \in ItemArgsOf(action) :
        LET out == Transition(w, w.status, action, args, now)
        IN  /\ w.processId \in Respondents
            /\ out.result = "OK"
            /\ bia_process_inputs' = (bia_process_inputs \ {w}) \cup {out.wi}
            /\ reply' = [call |-> action, result |-> out.result]
            /\ store_final_rto(action, out)
            /\ UNCHANGED <<bia_frameworks, bia_parameters, departments,
                           bia_instances, notifications>>
            /\ UNCHANGED <<workflowVars, process_applications, recalc,
                           sideVars>>

NextFramework ==
    \/ CreateFramework
    \/ UpdateFramework
    \/ DeleteFramework

SpecFramework == InitRegistry /\ [][NextFramework]_vars

NextInitiate ==
    \/ Initiate
    \/ DeleteFramework
    \/ DeleteDepartment
    \/ DeactivateProcess
    \/ ChangeOwner

SpecInitiate == InitRegistry /\ [][NextInitiate]_vars

NextSnapshot ==
    \/ Initiate
    \/ UpdateFramework
    \/ UpdateRatingDefinition
    \/ WorkItemStep

SpecSnapshot == InitRegistry /\ [][NextSnapshot]_vars

(***************************************************************************)
(* Properties                                                              *)
(***************************************************************************)

\* What the call of action with args returns and stores, made now by a
\* caller that is alone.
Outcome(action, args) == Transition(wi, wi.status, action, args, now)

\* The source status section 4.5 gives each action.
GuardedSource ==
    [saveDraft            |-> "Initiated",
     submitForReview      |-> "Initiated",
     requestClarification |-> "SubmittedForReview",
     forwardForApproval   |-> "SubmittedForReview",
     approve              |-> "ReviewInProgress",
     reject               |-> "ReviewInProgress"]

FourStatuses ==
    {"Initiated", "SubmittedForReview", "ReviewInProgress", "Approved"}

NoteMissing(action, args) ==
    action \in {"requestClarification", "approve", "reject"} /\ args.text = ""

AllRated(ratings) == \A p \in Params : ratings[p] \in Labels

\* C1 as stated: from each of the four statuses every action yields a new
\* status or a named error, and an action called from a status that is not
\* its guarded source status fails with InvalidTransition and leaves the
\* status as it is.
C1_AsStated ==
    \A action \in Actions : \A args \in ArgsOf(action) :
        wi.status \in FourStatuses =>
            LET out == Outcome(action, args)
            IN  /\ out.result \in Errors \cup {"OK"}
                /\ out.wi.status \in Statuses
                /\ wi.status # GuardedSource[action] =>
                       /\ out.result = "InvalidTransition"
                       /\ out.wi.status = wi.status

\* C1 (amended): from each of the four statuses every action yields a new
\* status or a named error; an action called from a status that is not its
\* guarded source status fails and leaves the work item as it is, with
\* ValidationError when its mandatory note or comments is empty and with
\* InvalidTransition otherwise.
C1_TotalTransitionFunction ==
    \A action \in Actions : \A args \in ArgsOf(action) :
        wi.status \in FourStatuses =>
            LET out == Outcome(action, args)
            IN  /\ out.result \in Errors \cup {"OK"}
                /\ out.wi.status \in Statuses
                /\ wi.status # GuardedSource[action] =>
                       /\ out.result = IF NoteMissing(action, args)
                                       THEN "ValidationError"
                                       ELSE "InvalidTransition"
                       /\ out.wi = wi

C1_Witness ==
    /\ last.action = "forwardForApproval"
    /\ last.result = "InvalidTransition"
    /\ wi.status = "Initiated"

\* C2 as stated: of two concurrent calls that read the same status at most
\* one takes effect; the other fails (with ConcurrentModification) instead
\* of writing over the first.
C2_AsStated ==
    last.raced => last.result # "OK"

\* C2 (amended): the compare-and-swap is on the status alone.  A call whose
\* write finds a status other than the one it read never takes effect: it
\* fails (ConcurrentModification, or the ValidationError or
\* InvalidTransition of the call itself) and leaves the work item as it is;
\* a call takes effect only when the status is still the one it read.
C2_CompareAndSwap ==
    [][\A a \in Actors :
          (call[a].pc = "read" /\ call'[a].pc = "idle") =>
              /\ wi.status # call[a].seen =>
                    /\ wi' = wi
                    /\ forwarded' = forwarded
                    /\ last'.result \in {"ConcurrentModification",
                                         "ValidationError", "InvalidTransition"}
              /\ last'.result = "ConcurrentModification" =>
                    wi.status # call[a].seen
      ]_vars

C2_Witness ==
    /\ last.raced
    /\ last.result = "ConcurrentModification"
    /\ last.action = "submitForReview"
    /\ wi.status = "Initiated"
    /\ wi.reviewerComments # ""

C4_SubmitSucceeds ==
    \A args \in ArgsOf("submitForReview") :
        ( /\ wi.status = "Initiated"
          /\ \A p \in Params :
                wi.ratings[p] \in Labels \/ args.ratings[p] \in Labels )
        => LET out == Outcome("submitForReview", args)
           IN  /\ out.result = "OK"
               /\ out.wi.status = "SubmittedForReview"
               /\ out.wi.submittedAt = now
               /\ out.wi.submittedAt # NotSet
               /\ AllRated(out.wi.ratings)
               /\ \A p \in Params :
                     out.wi.ratings[p] =
                        IF args.ratings[p] \in Labels THEN args.ratings[p]
                        ELSE wi.ratings[p]
               /\ out.wi.finalImpactScore # NoScore
               /\ out.wi.finalImpactScore =
                     calculate_impact_score(out.wi.ratings, frameworkSnapshot)

C4_Witness ==
    /\ last.action = "submitForReview"
    /\ last.result = "OK"
    /\ wi.status = "SubmittedForReview"
    /\ wi.submittedAt = now
    /\ wi.ratings = [P1 |-> "High", P2 |-> "Low"]
    /\ wi.finalImpactScore = 340

\* C5: approve is allowed only from ReviewInProgress and only with a
\* non-empty note; on success the status becomes Approved and
\* finalApprovedRTO is the recommended RTO, or the override RTO when
\* forwardForApproval supplied one.
C5_Approve ==
    \A args \in ArgsOf("approve") :
        LET out == Outcome("approve", args)
        IN  /\ out.result = "OK" <=>
                  (wi.status = "ReviewInProgress" /\ args.text # "")
            /\ out.result = "OK" =>
                  /\ out.wi.status = "Approved"
                  /\ out.wi.departmentHeadNote = args.text
                  /\ out.wi.finalApprovedRTO =
                        IF forwarded.overrideRTO # None
                        THEN forwarded.overrideRTO
                        ELSE wi.recommendedRTO
            /\ out.result # "OK" => out.wi = wi

C5_Witness ==
    /\ last.action = "approve"
    /\ last.result = "OK"
    /\ wi.status = "Approved"
    /\ wi.recommendedRTO = "24h"
    /\ forwarded.overrideRTO = "8h"
    /\ wi.finalApprovedRTO = "8h"

\* C6 as stated: reject is allowed only from ReviewInProgress and only with
\* a non-empty note; on success the status is Initiated again,
\* finalApprovedRTO is cleared and submittedAt is cleared, and the owner can
\* submit again.
C6_AsStated ==
    \A args \in ArgsOf("reject") :
        LET out == Outcome("reject", args)
        IN  /\ out.result = "OK" <=>
                  (wi.status = "ReviewInProgress" /\ args.text # "")
            /\ out.result = "OK" =>
                  /\ out.wi.status = "Initiated"
                  /\ out.wi.finalApprovedRTO = None
                  /\ out.wi.submittedAt = NotSet
                  /\ \A again \in ArgsOf("submitForReview") :
                        Transition(out.wi, out.wi.status, "submitForReview",
                                   again, now).result = "OK"

\* C7: requestClarification with non-empty comments on a work item in
\* SubmittedForReview puts the status back to Initiated, stores the comments
\* as reviewerComments and clears submittedAt; a submitForReview made from
\* that state is accepted again.
C7_RequestClarification ==
    \A args \in ArgsOf("requestClarification") :
        (wi.status = "SubmittedForReview" /\ args.text # "") =>
            LET out == Outcome("requestClarification", args)
            IN  /\ out.result = "OK"
                /\ out.wi.status = "Initiated"
                /\ out.wi.reviewerComments = args.text
                /\ out.wi.submittedAt = NotSet
                /\ \A again \in ArgsOf("submitForReview") :
                      LET re == Transition(out.wi, out.wi.status,
                                           "submitForReview", again, now)
                      IN  /\ re.result = "OK"
                          /\ re.wi.status = "SubmittedForReview"

C7_Witness ==
    /\ last.action = "submitForReview"
    /\ last.result = "OK"
    /\ wi.status = "SubmittedForReview"
    /\ wi.reviewerComments # ""

\* C8: requestClarification called with empty comments on a work item in
\* ReviewInProgress fails with ValidationError and leaves the work item as
\* it is.
C8_EmptyComments ==
    \A args \in ArgsOf("requestClarification") :
        (wi.status = "ReviewInProgress" /\ args.text = "") =>
            LET out == Outcome("requestClarification", args)
            IN  /\ out.result = "ValidationError"
                /\ out.wi = wi

C8_Witness ==
    /\ last.action = "requestClarification"
    /\ last.result = "ValidationError"
    /\ wi.status = "ReviewInProgress"

\* C9: forwardForApproval is allowed only from SubmittedForReview and sets
\* the status to ReviewInProgress; an override score it carries replaces the
\* computed finalImpactScore, and is the value still stored after a later
\* approve.
C9_Forward ==
    /\ \A args \in ArgsOf("forwardForApproval") :
          LET out == Outcome("forwardForApproval", args)
          IN  /\ out.result = "OK" <=> wi.status = "SubmittedForReview"
              /\ out.result = "OK" =>
                    /\ out.wi.status = "ReviewInProgress"
                    /\ out.wi.finalImpactScore =
                          IF args.overrideScore # NoScore
                          THEN args.overrideScore
                          ELSE wi.finalImpactScore
              /\ out.result # "OK" => out.wi = wi
    /\ ( /\ wi.status \in {"ReviewInProgress", "Approved"}
         /\ forwarded.overrideScore # NoScore )
       => wi.finalImpactScore = forwarded.overrideScore

C9_Witness ==
    /\ last.action = "approve"
    /\ last.result = "OK"
    /\ wi.status = "Approved"
    /\ forwarded.overrideScore = 200
    /\ wi.finalImpactScore = 200
    /\ calculate_impact_score(wi.ratings, frameworkSnapshot) # 200

C11_ApprovedIsTerminal ==
    [][wi.status = "Approved" =>
          /\ wi'.status = "Approved"
          /\ wi'.finalImpactScore = wi.finalImpactScore
          /\ wi'.finalApprovedRTO = wi.finalApprovedRTO
      ]_vars

C11_Witness ==
    /\ wi.status = "Approved"
    /\ last.action = "reject"
    /\ last.result \in {"InvalidTransition", "ConcurrentModification"}
    /\ wi.finalImpactScore = 200
    /\ wi.finalApprovedRTO = "24h"

\* The statuses claim C12 lists, in order.
C12_Statuses ==
    <<"Initiated", "SubmittedForReview", "Initiated", "SubmittedForReview",
      "ReviewInProgress", "Approved">>

Supporting ==
    {p \in process_applications :
        processes[p].isActive /\ processes[p].finalRTO \in RTOOptions}

\* d is the RTO of a supporting process and no supporting process has a
\* shorter one; d is None, which is no RTO option, when there is none.
IsDerivedRTO(d) ==
    IF Supporting = {} THEN d = None /\ d \notin RTOOptions
    ELSE /\ d \in RTOOptions
         /\ \E p \in Supporting : processes[p].finalRTO = d
         /\ \A q \in Supporting :
               valueInMinutes[d] <= valueInMinutes[processes[q].finalRTO]

\* C13: deriveApplicationRTO returns the RTO option of minimum duration
\* among the approved RTOs of the application's active linked processes, and
\* the distinct value "unset" when no linked process is active with an
\* approved RTO; a requested recalculation stores that value.
C13_DeriveApplicationRTO ==
    /\ IsDerivedRTO(deriveApplicationRTO(processes, process_applications))
    /\ audit.event = "recalculate" => IsDerivedRTO(derivedRTO)

C13_Witness ==
    /\ audit.event = "recalculate"
    /\ process_applications = ProcessIds
    /\ processes["P5"].isActive = FALSE /\ processes["P5"].finalRTO = "8h"
    /\ processes["P6"].isActive /\ processes["P6"].finalRTO = "24h"
    /\ derivedRTO = "24h"

\* The events whose handling recalculates derivedRTO.
TriggeringEvents == {e \in RTOEvents : e.kind \in RecalculationTriggers}

C16_AsStated ==
    (\A t \in Tasks : recalc[t].pc = "idle") => IsDerivedRTO(derivedRTO)

\* C16 (amended): every recalculation writes the shortest approved RTO over
\* the processes as they were when it read them, so two recalculations that
\* read the same processes write the same value; the stored derivedRTO is
\* the shortest over the processes as they are now whenever the
\* recalculation that wrote last had read them after their latest change.
C16_LastWrite ==
    /\ \A t \in Tasks :
          (recalc[t].pc = "read" /\ ~recalc[t].dirty)
              => IsDerivedRTO(recalc[t].found)
    /\ \A t, u \in Tasks :
          ( /\ recalc[t].pc = "read" /\ ~recalc[t].dirty
            /\ recalc[u].pc = "read" /\ ~recalc[u].dirty )
              => recalc[t].found = recalc[u].found
    /\ audit.settled => IsDerivedRTO(derivedRTO)

C16_Witness ==
    /\ audit.event = "recalculate"
    /\ audit.settled
    /\ derivedRTO = "8h"
    /\ recalc[1].pc = "idle"
    /\ recalc[2] = [pc |-> "read", found |-> "8h", dirty |-> FALSE]
    /\ process_applications = ProcessIds
    /\ processes["P5"].finalRTO = "24h"
    /\ processes["P6"].finalRTO = "8h"

\* The work items whose questionnaire has been submitted.
Scored ==
    {w \in bia_process_inputs :
        w.status \in {"SubmittedForReview", "ReviewInProgress", "Approved"}}

UnknownOrInactive(table, id) ==
    IF id \in DOMAIN table THEN table[id].isActive = FALSE ELSE TRUE

\* C18: initiate fails with InvalidDepartment when the department is unknown
\* or soft-deleted and with InvalidFramework when the framework is unknown
\* or soft-deleted (with one of the two when both are), and succeeds
\* otherwise; a failed initiate creates no instance, no work item and sends
\* no notification.
C18_InitiateRejects ==
    /\ [](\A d \in DepartmentIds : \A f \in FrameworkIds : \A q \in Frequencies :
            LET out  == initiate(d, f, q)
                dBad == UnknownOrInactive(departments, d)
                fBad == UnknownOrInactive(bia_frameworks, f)
            IN  /\ (dBad /\ ~fBad) => out.result = "InvalidDepartment"
                /\ (fBad /\ ~dBad) => out.result = "InvalidFramework"
                /\ (dBad /\ fBad) =>
                      out.result \in {"InvalidDepartment", "InvalidFramework"}
                /\ (~dBad /\ ~fBad) => out.result = "OK"
                /\ out.result # "OK" =>
                      out.instances = bia_instances /\ out.inputs = {})
    /\ [][(reply'.call = "initiate" /\ reply'.result # "OK") =>
             /\ reply'.result \in {"InvalidDepartment", "InvalidFramework"}
             /\ bia_instances' = bia_instances
             /\ bia_process_inputs' = bia_process_inputs
             /\ notifications' = notifications
         ]_vars

C18_Witness ==
    /\ reply = [call |-> "initiate", result |-> "InvalidDepartment"]
    /\ departments["D1"].isActive = FALSE
    /\ bia_frameworks["F1"].isActive
    /\ bia_instances = <<>>
    /\ bia_process_inputs = {}
    /\ notifications = EmptyBag

\* The processes that are not soft-deleted; all are of department D1.
ActiveNow == {p \in ProcessIds : processes[p].isActive}

\* C19: an initiate for a department and a framework that exist and are
\* active succeeds and creates the instance and, for each process of the
\* department that is active at that moment, exactly one work item, in
\* status Initiated and bound to the current owner of the process; none for
\* a soft-deleted process; one notification per created work item; with no
\* active process the instance is created with no work item and no
\* notification.
C19_InitiateCreates ==
    /\ [](\A d \in DepartmentIds : \A f \in FrameworkIds : \A q \in Frequencies :
            (~UnknownOrInactive(departments, d)
                /\ ~UnknownOrInactive(bia_frameworks, f)) =>
            LET out == initiate(d, f, q)
                i   == Len(bia_instances) + 1
            IN  /\ out.result = "OK"
                /\ Len(out.instances) = i
                /\ out.instances[i].departmentId = d
                /\ out.instances[i].frameworkId = f
                /\ \A p \in ProcessIds :
                      Cardinality({w \in out.inputs : w.processId = p}) =
                         IF processes[p].isActive THEN 1 ELSE 0
                /\ \A w \in out.inputs :
                      /\ w.status = "Initiated"
                      /\ w.biaInstanceId = i
                      /\ w.processOwnerId = processes[w.processId].processOwnerId
                /\ ActiveNow = {} => out.inputs = {})
    /\ [][Len(bia_instances') # Len(bia_instances) =>
             LET created == bia_process_inputs' \ bia_process_inputs
             IN  /\ reply' = [call |-> "initiate", result |-> "OK"]
                 /\ Len(bia_instances') = Len(bia_instances) + 1
                 /\ bia_process_inputs \subseteq bia_process_inputs'
                 /\ Cardinality(created) = Cardinality(ActiveNow)
                 /\ \A w \in created :
                       /\ w.biaInstanceId = Len(bia_instances')
                       /\ w.processId \in ActiveNow
                       /\ w.status = "Initiated"
                       /\ CopiesIn([to |-> w.processOwnerId,
                                    biaInstanceId |-> w.biaInstanceId,
                                    processId |-> w.processId],
                                   notifications') = 1
                 /\ BagCardinality(notifications') =
                       BagCardinality(notifications) + Cardinality(created)
         ]_vars

C19_Witness ==
    /\ reply = [call |-> "initiate", result |-> "OK"]
    /\ Len(bia_instances) = 1
    /\ processes["P6"].isActive = FALSE
    /\ processes["P5"].isActive
    /\ \A w \in bia_process_inputs :
          /\ w.processId = "P5"
          /\ w.processOwnerId = "U2"
          /\ w.status = "Initiated"
    /\ Cardinality(bia_process_inputs) = 1
    /\ BagCardinality(notifications) = 1

\* The weightage the request or the framework gives parameter p, if any.
WeightageOf(weights, p) == IF p \in DOMAIN weights THEN weights[p] ELSE 0

TotalWeightage(weights) == WeightageOf(weights, "P1") + WeightageOf(weights, "P2")

\* C20: a framework save fails with EmptyFramework when no parameter is
\* selected and with WeightSumInvalid when the weightages of the selected
\* parameters do not sum to exactly 100, and succeeds otherwise; every
\* stored framework has a parameter and weightages that sum to 100; a failed
\* create or update leaves the stored frameworks as they were.
C20_FrameworkSave ==
    /\ [](\A w \in FrameworkInputs :
            validate_framework(w) =
               IF DOMAIN w = {} THEN "EmptyFramework"
               ELSE IF TotalWeightage(w) = 100 THEN "OK"
               ELSE "WeightSumInvalid")
    /\ [](\A f \in DOMAIN bia_frameworks :
            /\ DOMAIN bia_frameworks[f].weights # {}
            /\ DOMAIN bia_frameworks[f].weights \subseteq Params
            /\ TotalWeightage(bia_frameworks[f].weights) = 100)
    /\ [][(/\ reply'.call \in {"createFramework", "updateFramework"}
           /\ reply'.result # "OK")
             => /\ reply'.result \in {"EmptyFramework", "WeightSumInvalid"}
                /\ bia_frameworks' = bia_frameworks
         ]_vars

C20_Witness ==
    /\ reply = [call |-> "updateFramework", result |-> "WeightSumInvalid"]
    /\ DOMAIN bia_frameworks = FrameworkIds
    /\ bia_frameworks["F1"].weights = [P1 |-> 40, P2 |-> 60]
    /\ DOMAIN bia_frameworks["F2"].weights = {"P2"}
    /\ bia_frameworks["F2"].weights["P2"] = 100

(***************************************************************************)
(* Rating catalog: the ranges of a quantitative parameter.                 *)
(***************************************************************************)
MaxRangeValue == 3
MaxRanges == 2

\* maxRange is null in an open-ended range ('Above 1000').
Unbounded == -1

\* One rating definition of a quantitative parameter: minRange and maxRange.
RangeInputs ==
    {r \in [minRange : 0..MaxRangeValue,
            maxRange : {Unbounded} \cup (0..MaxRangeValue)] :
        r.maxRange = Unbounded \/ r.minRange <= r.maxRange}

\* The ratings of a request, listed by their 'order'.
RangeSets == UNION {[1..n -> RangeInputs] : n \in 1..MaxRanges}

\* Two consecutive ranges share a value ('0-10, 5-20').
Overlapping(rs) ==
    \E i \in 1..(Len(rs) - 1) :
        /\ rs[i].maxRange # Unbounded
        /\ rs[i + 1].minRange <= rs[i].maxRange

\* Two consecutive ranges leave values uncovered ('0-10, 12-20').
Gapped(rs) ==
    \E i \in 1..(Len(rs) - 1) :
        /\ rs[i].maxRange # Unbounded
        /\ rs[i + 1].minRange > rs[i].maxRange + 1

\* An open-ended range is followed by another range.
OpenEndedMisplaced(rs) ==
    \E i \in 1..(Len(rs) - 1) : rs[i].maxRange = Unbounded

\* The values a range covers.
Covers(r, v) ==
    /\ r.minRange <= v
    /\ r.maxRange = Unbounded \/ v <= r.maxRange

\* Overlaps are reported, gaps are let through.
validate_ranges_GapsAllowed(rs) ==
    IF OpenEndedMisplaced(rs) \/ Overlapping(rs)
    THEN "InvalidRangeSet"
    ELSE "OK"

\* Validation of the ranges of a quantitative parameter.
validate_ranges(rs) ==
    IF OpenEndedMisplaced(rs) \/ Overlapping(rs) \/ Gapped(rs)
    THEN "InvalidRangeSet"
    ELSE "OK"

\* POST /bia_parameters with ratingType 'Quantitative'.
CreateParameter ==
    \E rs \in RangeSets :
        /\ bia_rating_definitions.ranges = <<>>
        /\ reply' = [call |-> "createParameter", result |-> validate_ranges(rs)]
        /\ bia_rating_definitions' =
              IF validate_ranges(rs) = "OK"
              THEN [ranges |-> rs, isActive |-> TRUE]
              ELSE bia_rating_definitions
        /\ UNCHANGED <<workflowVars, rtoVars, bia_frameworks, bia_parameters,
                       departments, bia_instances, bia_process_inputs,
                       notifications, scoringVars, pageVars>>

\* PUT /bia_parameters/{id}: replaces the rating definitions.
UpdateParameter ==
    \E rs \in RangeSets :
        /\ bia_rating_definitions.isActive
        /\ reply' = [call |-> "updateParameter", result |-> validate_ranges(rs)]
        /\ bia_rating_definitions' =
              IF validate_ranges(rs) = "OK"
              THEN [bia_rating_definitions EXCEPT !.ranges = rs]
              ELSE bia_rating_definitions
        /\ UNCHANGED <<workflowVars, rtoVars, bia_frameworks, bia_parameters,
                       departments, bia_instances, bia_process_inputs,
                       notifications, scoringVars, pageVars>>

\* DELETE /bia_parameters/{id}: soft delete.
DeleteParameter ==
    /\ bia_rating_definitions.isActive
    /\ reply' = [call |-> "deleteParameter", result |-> "OK"]
    /\ bia_rating_definitions' =
          [bia_rating_definitions EXCEPT !.isActive = FALSE]
    /\ UNCHANGED <<workflowVars, rtoVars, bia_frameworks, bia_parameters,
                   departments, bia_instances, bia_process_inputs,
                   notifications, scoringVars, pageVars>>

NextCatalog ==
    \/ CreateParameter
    \/ UpdateParameter
    \/ DeleteParameter

SpecCatalog == InitRegistry /\ [][NextCatalog]_vars

\* Two different ranges of the set cover a common value.
SharesValue(rs) ==
    \E i, j \in 1..Len(rs) :
        /\ i # j
        /\ \E v \in 0..(MaxRangeValue + 1) : Covers(rs[i], v) /\ Covers(rs[j], v)

\* A value between two consecutive ranges is covered by neither.
LeavesGap(rs) ==
    \E i \in 1..(Len(rs) - 1) :
        /\ rs[i].maxRange # Unbounded
        /\ \E v \in 0..(MaxRangeValue + 1) :
              /\ rs[i].maxRange < v
              /\ v < rs[i + 1].minRange

OpenEnded(rs) == {i \in 1..Len(rs) : rs[i].maxRange = Unbounded}

\* Contiguous, mutually exclusive, at most one open-ended range, the last.
WellFormedRanges(rs) ==
    /\ ~SharesValue(rs)
    /\ ~LeavesGap(rs)
    /\ Cardinality(OpenEnded(rs)) <= 1
    /\ OpenEnded(rs) \subseteq {Len(rs)}

\* C21: a quantitative rating set whose ranges overlap, leave a gap, hold more
\* than one open-ended range or an open-ended range that is not last is
\* refused with InvalidRangeSet and nothing is stored; every stored set is
\* contiguous and mutually exclusive with at most one open-ended range, last.
C21_RangeSets ==
    /\ [](\A rs \in RangeSets :
            /\ ~WellFormedRanges(rs) => validate_ranges(rs) = "InvalidRangeSet"
            /\ validate_ranges(rs) = "OK" => WellFormedRanges(rs))
    /\ [](WellFormedRanges(bia_rating_definitions.ranges))
    /\ [][
           /\ reply'.result = "InvalidRangeSet"
                 => UNCHANGED bia_rating_definitions
           /\ (reply'.call \in {"createParameter", "updateParameter"}
                 /\ reply'.result = "OK")
                 => validate_ranges(bia_rating_definitions'.ranges) = "OK"
         ]_vars

\* The ranges '0-1, above 1' are stored; a later update with an invalid set
\* was refused.
C21_Witness ==
    /\ bia_rating_definitions.ranges =
          <<[minRange |-> 0, maxRange |-> 1],
            [minRange |-> 2, maxRange |-> Unbounded]>>
    /\ reply = [call |-> "updateParameter", result |-> "InvalidRangeSet"]

(***************************************************************************)
(* The score calculation on its own, for qualitative and quantitative      *)
(* parameters.                                                             *)
(***************************************************************************)
\* No value was entered for a quantitative parameter.
NoValue == -1

\* The quantitative parameters P3 and P4 and their rating definitions.
QuantitativeDefinitions ==
    [P3 |-> <<[ratingLabel |-> "0-10", minRange |-> 0, maxRange |-> 10,
               score |-> 1],
              [ratingLabel |-> "11-50", minRange |-> 11, maxRange |-> 50,
               score |-> 3]>>,
     P4 |-> <<[ratingLabel |-> "0-5", minRange |-> 0, maxRange |-> 5,
               score |-> 1],
              [ratingLabel |-> "6-10", minRange |-> 6, maxRange |-> 10,
               score |-> 5]>>]

\* The rating definition a submitted value falls in.
ratingFor(definitions, v) ==
    IF v = NoValue THEN None
    ELSE LET i == CHOOSE j \in 1..Len(definitions) : Covers(definitions[j], v)
         IN  definitions[i].ratingLabel

\* scoreGivenForRating of each rating definition of each parameter.
ScoresOf(definitions) ==
    [p \in DOMAIN definitions |->
        [l \in {definitions[p][i].ratingLabel :
                    i \in 1..Len(definitions[p])} |->
            LET i == CHOOSE j \in 1..Len(definitions[p]) :
                         definitions[p][j].ratingLabel = l
            IN  definitions[p][i].score]]

ScoringWeightages == {0, 20, 40, 50, 60, 80, 100}

\* The weightages a saved framework can give the parameters ps.
WeightSets(ps) ==
    {w \in [ps -> ScoringWeightages] : SumOfWeightages(ps, w) = 100}

QualitativeSnapshots ==
    {[weights |-> w, scores |-> frameworkSnapshot.scores] :
        w \in WeightSets(Params)}

QuantitativeSnapshots ==
    {[weights |-> w, scores |-> ScoresOf(QuantitativeDefinitions)] :
        w \in WeightSets(DOMAIN QuantitativeDefinitions)}

QuantitativeRequests == [P3 : {NoValue, 7, 20}, P4 : {NoValue, 3, 7}]

\* calculate_impact_score on the ratings of qualitative parameters.
ScoreQualitative ==
    \E snapshot \in QualitativeSnapshots, ratings \in RatingSets :
        /\ computed' =
              [request |-> ratings, ratings |-> ratings,
               snapshot |-> snapshot,
               score |-> calculate_impact_score(ratings, snapshot)]
        /\ UNCHANGED <<workflowVars, rtoVars, registryVars, catalogVars, pageVars>>

\* calculate_impact_score on the values entered for quantitative parameters.
ScoreQuantitative ==
    \E snapshot \in QuantitativeSnapshots, request \in QuantitativeRequests :
        LET ratings ==
                [p \in DOMAIN request |->
                    ratingFor(QuantitativeDefinitions[p], request[p])]
        IN  /\ computed' =
                  [request |-> request, ratings |-> ratings,
                   snapshot |-> snapshot,
                   score |-> calculate_impact_score(ratings, snapshot)]
            /\ UNCHANGED <<workflowVars, rtoVars, registryVars, catalogVars, pageVars>>

NextScoring ==
    \/ ScoreQualitative
    \/ ScoreQuantitative

SpecScoring == InitRegistry /\ [][NextScoring]_vars

\* scoreGiven_p * weight_p of the latest calculation; 0 without a rating.
Contribution(p) ==
    IF computed.ratings[p] = None THEN 0
    ELSE computed.snapshot.scores[p][computed.ratings[p]]
            * computed.snapshot.weights[p]

\* The sum of the contributions, counted as the size of a bag that holds
\* each contributing parameter as often as it contributes.
TotalContribution ==
    LET ps == {p \in DOMAIN computed.snapshot.weights : Contribution(p) > 0}
    IN  BagCardinality([p \in ps |-> Contribution(p)])

\* C22: the score, in hundredths, is the sum over the snapshot's parameters of
\* scoreGiven * weight (so the score is that sum divided by 100); a parameter
\* without a rating contributes 0, a parameter of weight 0 has no effect, and
\* the score is a function of the ratings and the snapshot. High(5) at 60 and
\* Low(1) at 40 give 3.4; 20 (score 3) and 7 (score 5) at 50 each give 4.0;
\* no rating at all gives 0.
C22_ComputeScore ==
    computed.score # NoScore =>
        /\ computed.score = TotalContribution
        /\ computed.score =
              calculate_impact_score(computed.ratings, computed.snapshot)
        /\ \A p \in DOMAIN computed.snapshot.weights :
              computed.snapshot.weights[p] = 0 =>
                 \A r \in DOMAIN computed.snapshot.scores[p] \cup {None} :
                    calculate_impact_score(
                        [computed.ratings EXCEPT ![p] = r],
                        computed.snapshot) = computed.score
        /\ (/\ DOMAIN computed.request = Params
            /\ computed.snapshot = frameworkSnapshot
            /\ computed.request = [P1 |-> "High", P2 |-> "Low"])
              => computed.score = 340
        /\ (/\ DOMAIN computed.request = DOMAIN QuantitativeDefinitions
            /\ computed.snapshot.weights = [P3 |-> 50, P4 |-> 50]
            /\ computed.request = [P3 |-> 20, P4 |-> 7])
              => computed.score = 400
        /\ (\A p \in DOMAIN computed.ratings : computed.ratings[p] = None)
              => computed.score = 0

\* P2 weighs 0 and is rated High(3); P1 weighs 100 and is rated Low(1): the
\* score is 1.0.
C22_Witness ==
    /\ computed.score # NoScore
    /\ DOMAIN computed.request = Params
    /\ computed.snapshot.weights = [P1 |-> 100, P2 |-> 0]
    /\ computed.request = [P1 |-> "Low", P2 |-> "High"]
    /\ computed.score = 100

(***************************************************************************)
(* Snapshots that lack a rating definition.                                *)
(***************************************************************************)
\* The parameters whose rating definitions are deleted.
Trimmed == {"P1"}

\* PUT /bia_parameters/{id} that deletes a rating definition of a parameter.
DeleteRatingDefinition ==
    \E p \in Trimmed : \E l \in DOMAIN bia_parameters[p] :
        /\ bia_parameters' =
              [bia_parameters EXCEPT ![p] =
                  [k \in (DOMAIN bia_parameters[p]) \ {l} |->
                      bia_parameters[p][k]]]
        /\ UNCHANGED <<bia_frameworks, departments, bia_instances,
                       bia_process_inputs, notifications, reply>>
        /\ UNCHANGED <<workflowVars, rtoVars, sideVars>>

\* A workflow endpoint called on one of the work items, whatever it answers.
WorkItemCall ==
    \E w \in bia_process_inputs : \E action \in ItemActions :
      \E args \in ItemArgsOf(action) :
        LET out == Transition(w, w.status, action, args, now)
        IN  /\ w.processId \in Respondents
            /\ bia_process_inputs' = (bia_process_inputs \ {w}) \cup {out.wi}
            /\ reply' = [call |-> action, result |-> out.result]
            /\ store_final_rto(action, out)
            /\ UNCHANGED <<bia_frameworks, bia_parameters, departments,
                           bia_instances, notifications>>
            /\ UNCHANGED <<workflowVars, process_applications, recalc,
                           sideVars>>

NextCorrupt ==
    \/ Initiate
    \/ DeleteRatingDefinition
    \/ WorkItemCall

SpecCorrupt == InitRegistry /\ [][NextCorrupt]_vars

\* Some rating names a rating definition that the snapshot does not hold.
Undefined(ratings, snapshot) ==
    \E p \in Params :
        /\ ratings[p] \in Labels
        /\ ratings[p] \notin DOMAIN snapshot.scores[p]

\* C23: a submitForReview whose ratings name a rating definition absent from
\* the instance's snapshot answers CorruptSnapshot and stores nothing: the
\* status stays Initiated and no finalImpactScore is stored; no work item is
\* ever scored with a rating the snapshot does not define.
C23_CorruptSnapshot ==
    /\ [](\A w \in bia_process_inputs :
            \A args \in ItemArgsOf("submitForReview") :
              LET snapshot == bia_instances[w.biaInstanceId].frameworkSnapshot
                  out == Transition(w, w.status, "submitForReview", args, now)
              IN  (/\ w.status = "Initiated"
                   /\ Undefined(args.ratings, snapshot))
                     => /\ out.result = "CorruptSnapshot"
                        /\ out.wi = w
                        /\ out.wi.status = "Initiated"
                        /\ out.wi.finalImpactScore = w.finalImpactScore)
    /\ [](\A w \in bia_process_inputs :
            LET snapshot == bia_instances[w.biaInstanceId].frameworkSnapshot
            IN  /\ w.finalImpactScore # NoScore
                      => ~Undefined(w.ratings, snapshot)
                /\ Undefined(w.ratings, snapshot)
                      => /\ w.status = "Initiated"
                         /\ w.finalImpactScore = NoScore)
    /\ [][
           reply'.result = "CorruptSnapshot"
              => /\ reply'.call = "submitForReview"
                 /\ bia_process_inputs' = bia_process_inputs
         ]_vars

\* The instance was initiated after the rating definition 'High' of P1 was
\* deleted; the submission of the questionnaire of P5 with P1 rated High was
\* refused, the work item is still Initiated and has no score.
C23_Witness ==
    /\ reply = [call |-> "submitForReview", result |-> "CorruptSnapshot"]
    /\ \E w \in bia_process_inputs :
          /\ w.processId = "P5"
          /\ "High" \notin
                DOMAIN bia_instances[w.biaInstanceId].frameworkSnapshot
                          .scores["P1"]
          /\ w.status = "Initiated"
          /\ w.finalImpactScore = NoScore

C25_AsStated ==
    (wi.submittedAt # NotSet) <=>
        wi.status \in {"SubmittedForReview", "ReviewInProgress", "Approved"}

\* C26 as stated: in every reachable state finalApprovedRTO is set only if
\* the status is Approved.
C26_AsStated == wi.finalApprovedRTO # None => wi.status = "Approved"

\* C26: in every reachable state finalApprovedRTO is set only if the status
\* is ReviewInProgress or Approved; while the work item is ReviewInProgress
\* it is what forwardForApproval wrote, the override RTO if one was given and
\* the recommended RTO otherwise; no sequence of saveDraft, submitForReview,
\* requestClarification, forwardForApproval and reject leaves a work item
\* that is not under approval or approved with a finalApprovedRTO.
C26_OnlyUnderApproval ==
    /\ wi.finalApprovedRTO # None
          => wi.status \in {"ReviewInProgress", "Approved"}
    /\ wi.status = "ReviewInProgress"
          => wi.finalApprovedRTO =
                IF forwarded.overrideRTO # None THEN forwarded.overrideRTO
                ELSE wi.recommendedRTO

\* The reviewer forwarded with an override RTO and the department head
\* rejected: the work item is Initiated again and holds no finalApprovedRTO.
C26_Witness ==
    /\ last.action = "reject"
    /\ last.result = "OK"
    /\ forwarded.overrideRTO = "24h"
    /\ wi.status = "Initiated"
    /\ wi.finalApprovedRTO = None

\* C27: a transition call that answers with an error (InvalidTransition,
\* ValidationError, IncompleteSubmission, ConcurrentModification) leaves
\* every field of the work item as it was (status, ratings, finalImpactScore,
\* finalApprovedRTO, reviewerComments, departmentHeadNote, submittedAt) and
\* recomputes no RTO: processes.finalRTO, the application's derived RTO and
\* the record of the latest RTO event are unchanged.
C27_ErrorsChangeNothing ==
    [][
       (/\ \E a \in Actors : call[a].pc = "read" /\ call'[a].pc = "idle"
        /\ last'.result # "OK")
          => /\ last'.result \in Errors
             /\ wi' = wi
             /\ wi'.status = wi.status
             /\ wi'.ratings = wi.ratings
             /\ wi'.finalImpactScore = wi.finalImpactScore
             /\ wi'.finalApprovedRTO = wi.finalApprovedRTO
             /\ wi'.reviewerComments = wi.reviewerComments
             /\ wi'.departmentHeadNote = wi.departmentHeadNote
             /\ wi'.submittedAt = wi.submittedAt
             /\ forwarded' = forwarded
             /\ processes' = processes
             /\ derivedRTO' = derivedRTO
             /\ audit' = audit
             /\ recalc' = recalc
      ]_vars

\* Two department heads read the work item in ReviewInProgress; the reject
\* took effect first and the approve was refused: the work item is as the
\* reject left it, and the latest RTO event is still the rejection.
C27_Witness ==
    /\ last.action = "approve"
    /\ last.result = "ConcurrentModification"
    /\ wi.status = "Initiated"
    /\ wi.finalApprovedRTO = None
    /\ audit.event = "reject"
    /\ processes[wi.processId].finalRTO = None

(***************************************************************************)
(* DepartmentManagementPage: the list of departments and the create modal. *)
(* A request is sent, answered by the server, and its response handled by  *)
(* the page later; responses are handled in any order.                     *)
(***************************************************************************)
MaxPosts == 2

\* The fetch on mount and one refresh for each create.
MaxGets == MaxPosts + 1

\* The list the server returns when it holds n departments.
Listing(n) == [i \in 1..n |-> i]

\* fetchDepartments up to its await: loading, no error.
fetch_started(pg) == [pg EXCEPT !.isLoading = TRUE, !.error = None]

\* fetchDepartments after its await.
fetch_finished(pg, response) ==
    IF response.ok
    THEN [pg EXCEPT !.departments = response.items, !.isLoading = FALSE]
    ELSE [pg EXCEPT !.error = "Failed to fetch departments",
                    !.isLoading = FALSE]

\* handleCreateDepartment after a POST that succeeded, the synchronous part
\* of the fetchDepartments it calls included.
create_succeeded(pg) ==
    fetch_started([pg EXCEPT !.toast = "success", !.showCreateModal = FALSE])

\* A catch block that closes the modal.
create_failed_ClosesModal(pg) ==
    [pg EXCEPT !.toast = "error", !.showCreateModal = FALSE]

\* handleCreateDepartment after a POST that failed: the catch block.
create_failed(pg) == [pg EXCEPT !.toast = "error"]

Sent == [pc |-> "sent", ok |-> FALSE, items |-> <<>>]

\* useEffect(() => { fetchDepartments(); }, [])
Mount ==
    /\ gets = <<>>
    /\ page' = fetch_started(page)
    /\ gets' = <<Sent>>
    /\ UNCHANGED <<posts, on_server>>
    /\ UNCHANGED <<workflowVars, rtoVars, registryVars, catalogVars,
                   scoringVars>>

\* The server answers a GET: the list as it is now, or a failure.
ServeGet ==
    \E i \in 1..Len(gets) : \E ok \in BOOLEAN :
        /\ gets[i].pc = "sent"
        /\ gets' = [gets EXCEPT ![i] =
                       [pc |-> "answered", ok |-> ok,
                        items |-> IF ok THEN Listing(on_server) ELSE <<>>]]
        /\ UNCHANGED <<page, posts, on_server>>
        /\ UNCHANGED <<workflowVars, rtoVars, registryVars, catalogVars,
                       scoringVars>>

\* The response of a GET reaches fetchDepartments.
FetchDone ==
    \E i \in 1..Len(gets) :
        /\ gets[i].pc = "answered"
        /\ page' = fetch_finished(page, gets[i])
        /\ gets' = [gets EXCEPT ![i].pc = "done"]
        /\ UNCHANGED <<posts, on_server>>
        /\ UNCHANGED <<workflowVars, rtoVars, registryVars, catalogVars,
                       scoringVars>>

\* onClick of 'Add New Department'
OpenModal ==
    /\ gets # <<>>
    /\ page' = [page EXCEPT !.error = None, !.showCreateModal = TRUE]
    /\ UNCHANGED <<gets, posts, on_server>>
    /\ UNCHANGED <<workflowVars, rtoVars, registryVars, catalogVars,
                   scoringVars>>

\* onClose of the modal
CloseModal ==
    /\ page.showCreateModal
    /\ page' = [page EXCEPT !.showCreateModal = FALSE]
    /\ UNCHANGED <<gets, posts, on_server>>
    /\ UNCHANGED <<workflowVars, rtoVars, registryVars, catalogVars,
                   scoringVars>>

\* onSubmit of the modal: handleCreateDepartment up to its await.
SubmitCreate ==
    /\ page.showCreateModal
    /\ Len(posts) < MaxPosts
    /\ posts' = Append(posts, [pc |-> "sent", ok |-> FALSE])
    /\ UNCHANGED <<page, gets, on_server>>
    /\ UNCHANGED <<workflowVars, rtoVars, registryVars, catalogVars,
                   scoringVars>>

\* The server answers a POST: the department is created, or the POST fails.
ServePost ==
    \E j \in 1..Len(posts) : \E ok \in BOOLEAN :
        /\ posts[j].pc = "sent"
        /\ posts' = [posts EXCEPT ![j] = [pc |-> "answered", ok |-> ok]]
        /\ on_server' = IF ok THEN on_server + 1 ELSE on_server
        /\ UNCHANGED <<page, gets>>
        /\ UNCHANGED <<workflowVars, rtoVars, registryVars, catalogVars,
                       scoringVars>>

\* The response of a POST reaches handleCreateDepartment.
CreateDone ==
    \E j \in 1..Len(posts) :
        /\ posts[j].pc = "answered"
        /\ posts' = [posts EXCEPT ![j].pc = "done"]
        /\ IF posts[j].ok
           THEN /\ page' = create_succeeded(page)
                /\ gets' = Append(gets, Sent)
           ELSE /\ page' = create_failed(page)
                /\ gets' = gets
        /\ UNCHANGED on_server
        /\ UNCHANGED <<workflowVars, rtoVars, registryVars, catalogVars,
                       scoringVars>>

NextPage ==
    \/ Mount
    \/ ServeGet
    \/ FetchDone
    \/ OpenModal
    \/ CloseModal
    \/ SubmitCreate
    \/ ServePost
    \/ CreateDone

SpecPage == InitRegistry /\ [][NextPage]_vars

\* C28: handleCreateDepartment closes the create modal and issues a list
\* fetch only when the POST succeeded; when the POST failed it leaves the
\* modal as it is (open, unless the user closed it meanwhile), issues no
\* fetch and leaves the departments list unchanged.
C28_CreateOutcome ==
    [][
       /\ \A j \in 1..Len(posts) :
             (posts[j].pc = "answered" /\ posts'[j].pc = "done") =>
                IF posts[j].ok
                THEN /\ page'.showCreateModal = FALSE
                     /\ Len(gets') = Len(gets) + 1
                     /\ gets'[Len(gets')].pc = "sent"
                ELSE /\ page'.showCreateModal = page.showCreateModal
                     /\ gets' = gets
                     /\ page'.departments = page.departments
       /\ (gets # <<>> /\ Len(gets') > Len(gets)) =>
             \E j \in 1..Len(posts) :
                /\ posts[j].pc = "answered"
                /\ posts[j].ok
                /\ posts'[j].pc = "done"
      ]_vars

\* The list was loaded, a create was submitted and failed: the error toast is
\* shown, the modal is still open, the mount fetch is the only fetch issued.
C28_Witness ==
    /\ Len(posts) = 1
    /\ posts[1].pc = "done"
    /\ ~posts[1].ok
    /\ page.toast = "error"
    /\ page.showCreateModal
    /\ Len(gets) = 1
    /\ gets[1].pc = "done"

\* C29 as stated: when a fetchDepartments call finishes, isLoading is false
\* whether the request succeeded or failed, error is set exactly when the
\* request failed, and a failed request leaves the departments list in place.
C29_AsStated ==
    [][\A i \in 1..Len(gets) :
          (gets[i].pc = "answered" /\ gets'[i].pc = "done") =>
             /\ page'.isLoading = FALSE
             /\ page'.error # None <=> ~gets[i].ok
             /\ ~gets[i].ok => page'.departments = page.departments
      ]_vars

\* C30 as stated: when the mount fetch and the refresh after a successful
\* create overlap and both have completed, in either order of arrival, the
\* departments list holds the response of the most recently issued request.
C30_AsStated ==
    (/\ Len(gets) >= 2
     /\ \A i \in 1..Len(gets) : gets[i].pc = "done" /\ gets[i].ok)
        => page.departments = gets[Len(gets)].items

====
